---- MODULE Spec2Model ----
(***************************************************************************)
(* NetGateTunnel server: the control server (WebSocket sessions, auth,     *)
(* keepalive), the tunnel manager (registry of public listeners, bind      *)
(* retry, rendezvous of external sockets with data sockets, teardown) and  *)
(* the glue of server/index.js, as one state machine.                      *)
(*                                                                         *)
(* One action is one callback of the Node.js event loop: a handler runs to *)
(* its end or to an await on I/O or on a timer (the listen callback, the   *)
(* retry delay, the listener's close callback, the delay after it), which  *)
(* is resumed by an action of its own.                                     *)
(***************************************************************************)
EXTENDS Integers, Sequences, FiniteSets, TLC

\* ---------------------------------------------------------------- bounds
MaxWs == 2          \* control connections the server ever accepts
MaxPorts == 2       \* remote ports are 1..MaxPorts
MaxSpecs == 2       \* tunnel specs in one register_tunnels frame
MaxRegs == 2        \* registerTunnels calls in progress at once
MaxTunnels == 2     \* tunnel objects ever created (successful binds)
MaxConns == 2       \* external connections ever accepted
MaxBytes == 2       \* bytes written by one peer of one connection

\* ------------------------------------------------------ program constants
maxRetries == 3     \* registerTunnelWithRetry: const maxRetries = 3

WsIds == 1..MaxWs
Ports == 1..MaxPorts
TunIds == 1..MaxTunnels
ConnIds == 1..MaxConns
ByteVals == {7, 8}

\* Tokens a client may present; "" is the empty string (falsy in JavaScript),
\* NoToken a frame without a token field.
NoToken == "<absent>"
Tokens == {"", "good", "bad"}

VARIABLES
  authTokens,          \* config.authTokens (a set: only membership is used)
  allowedPorts,        \* config.allowedPorts: sequence of rules
  ws,                  \* control connections: [st, authenticated, clientId]
                       \* and two history fields: dropped (a frame was logged
                       \* and ignored before authentication), failed (an auth
                       \* frame was refused), timedOut (the keepalive tick
                       \* closed it), registerSeen (a register_tunnels
                       \* frame of the session was handled), ignored (a
                       \* frame was logged and ignored after authentication),
                       \* heard (a frame or pong of the authenticated
                       \* client has arrived since the last keepalive
                       \* tick); and age: the keepalive ticks since
                       \* client.lastPing was set
  clients,             \* ControlServer.clients: the clientIds in the map
  nextClientId,        \* generateClientId: the next fresh id
  tunnels,             \* TunnelManager.tunnels: Map in insertion order
  tun,                 \* the tunnel objects (one per successful bind)
  nextTun,             \* next unused tunnel object
  regs,                \* registerTunnels calls in progress (suspended)
  downs,               \* unregisterClientTunnels calls in progress
  pendingConnections,  \* TunnelManager.pendingConnections: set of ids
  timer,               \* the pending record's timeout is armed
  conn,                \* per external connection: closures' captured values
  ext,                 \* state of the external socket of a connection
  data,                \* state of the data socket of a connection
  nextConn,            \* generateConnectionId: the next fresh id
  extIn,               \* bytes read from the external socket, not yet piped
  dataIn,              \* bytes read from the data socket, not yet piped
  wire,                \* per connection: what each peer wrote and received,
                       \* and how many bytes the external user wrote before
                       \* the sockets were spliced (early)
  sent                 \* the frames the last callback wrote to the control
                       \* connections, in order, as [w, m]

ctlVars == <<ws, clients, nextClientId>>
cfgVars == <<authTokens, allowedPorts>>
regVars == <<regs, downs>>
storeVars == <<tunnels, tun, nextTun, pendingConnections, timer, conn,
               ext, data, nextConn>>
byteVars == <<extIn, dataIn, wire>>
vars == <<cfgVars, ctlVars, regVars, storeVars, byteVars, sent>>

\* ---------------------------------------------------------------- values
NoTun == [port |-> 0, clientId |-> 0, listener |-> "none", active |-> 0,
          total |-> 0, connections |-> {}, incomingSockets |-> {},
          bytesIn |-> 0, bytesOut |-> 0]
NoConn == [acc |-> 0, port |-> 0, tunnel |-> 0, notified |-> FALSE,
           ready |-> FALSE, rtunnel |-> 0, piped |-> FALSE, expired |-> FALSE]
NoWire == [extOut |-> <<>>, dataGot |-> <<>>, dataOut |-> <<>>, extGot |-> <<>>,
           early |-> 0]

\* The part of the state the tunnel manager's methods read and write, as one
\* record, so that a method is a function from store to store. out starts
\* empty in every callback and collects the frames the callback writes to
\* the control connections, as [w, m]; the callback's end leaves it in sent.
Store == [out |-> <<>>, tunnels |-> tunnels, tun |-> tun, nextTun |-> nextTun,
          pendingConnections |-> pendingConnections, timer |-> timer,
          conn |-> conn, ext |-> ext, data |-> data, nextConn |-> nextConn]

\* A callback that changes nothing in the store and writes no frame.
Silent == UNCHANGED storeVars /\ sent' = <<>>

Commit(S) ==
  /\ sent' = S.out
  /\ tunnels' = S.tunnels
  /\ tun' = S.tun
  /\ nextTun' = S.nextTun
  /\ pendingConnections' = S.pendingConnections
  /\ timer' = S.timer
  /\ conn' = S.conn
  /\ ext' = S.ext
  /\ data' = S.data
  /\ nextConn' = S.nextConn

\* ------------------------------------------------------- Map operations
\* this.tunnels is a JavaScript Map: has/get/set/delete, iteration in
\* insertion order. It is a sequence of [port, t] without repeated port.
MapHas(m, p) == \E i \in 1..Len(m) : m[i].port = p
MapGet(m, p) == IF MapHas(m, p)
                THEN (CHOOSE i \in 1..Len(m) : m[i].port = p)
                ELSE 0
MapGetTun(m, p) == IF MapHas(m, p) THEN m[MapGet(m, p)].t ELSE 0
MapSet(m, p, t) == IF MapHas(m, p)
                   THEN [m EXCEPT ![MapGet(m, p)] = [port |-> p, t |-> t]]
                   ELSE Append(m, [port |-> p, t |-> t])
MapDelete(m, p) == SelectSeq(m, LAMBDA e : e.port # p)

\* ------------------------------------------------------------- protocol
\* A frame as the 'message' handler sees it. type "garbage" is a frame
\* JSON.parse throws on; "bogus" is JSON of no recognised type.
Frame(t, tk, tl, c) == [type |-> t, token |-> tk, tunnels |-> tl, connectionId |-> c]

\* createNewConnectionMessage and the literals of index.js / control-server.
Msg(t, x, y, e) == [type |-> t, x |-> x, y |-> y, err |-> e]

\* TunnelSpec: remotePort is the identity; the local port is the client's.
LocalPortOf(p) == p + 10
TunnelSpec(p) == [remotePort |-> p, localPort |-> LocalPortOf(p)]
SpecLists == UNION {[1..n -> {TunnelSpec(p) : p \in Ports}] : n \in 1..MaxSpecs}

MESSAGE_TYPES == {"auth", "register_tunnels", "connection_ready",
                  "connection_closed", "status_request", "ping", "pong"}

\* validateMessage: a recognised type with its required fields.
validateMessage(f) ==
  /\ f.type \in MESSAGE_TYPES
  /\ f.type = "auth" => f.token # NoToken

\* isPortAllowed: a rule is a port or a [min, max] range; no rule allows all.
RuleAllows(rule, p) == rule.min <= p /\ p <= rule.max
isPortAllowed(p, rules) ==
  \/ Len(rules) = 0
  \/ \E i \in 1..Len(rules) : RuleAllows(rules[i], p)

\* ------------------------------------------------------- control server
Falsy(token) == token = "" \/ token = NoToken

\* ControlServer.authenticateClient
authenticateClient(token) ==
  IF Falsy(token) THEN [success |-> FALSE, reason |-> "No token provided"]
  ELSE IF authTokens = {} THEN [success |-> TRUE, reason |-> ""]
  ELSE IF token \in authTokens THEN [success |-> TRUE, reason |-> ""]
  ELSE [success |-> FALSE, reason |-> "Invalid token"]

\* The control connection that was given clientId cid (client.ws).
WsOf(cid) == CHOOSE w \in WsIds : ws[w].clientId = cid

\* ws.send: the frame goes out while the socket is OPEN; after close() it
\* is discarded.
WsSend(S, w, m) ==
  IF ws[w].st = "open" THEN [S EXCEPT !.out = Append(@, [w |-> w, m |-> m])] ELSE S

\* ControlServer.sendToClient: [ok, S]
CanSendToClient(cid) == cid \in clients /\ ws[WsOf(cid)].st = "open"
sendToClient(S, cid, m) ==
  IF CanSendToClient(cid) THEN WsSend(S, WsOf(cid), m) ELSE S

\* ws.close(): starts the closing handshake; frames the peer has already
\* sent are still delivered until the 'close' event.
WsCloseCall(w) == IF ws[w].st = "open" THEN [ws EXCEPT ![w].st = "closing"] ELSE ws

CanReceive(w) == ws[w].st \in {"open", "closing"}

\* wss.on('connection'): handleConnection
WsConnect(w) ==
  /\ ws[w].st = "idle"
  /\ \A v \in WsIds : v < w => ws[v].st # "idle"
  /\ ws' = [ws EXCEPT ![w].st = "open"]
  /\ Silent
  /\ UNCHANGED <<cfgVars, clients, nextClientId, regVars, byteVars>>

\* RecvBadFrame with the pre-authentication reaction to a frame of another
\* type: the connection is closed.
RecvBadFrameCloses(w, f) ==
  /\ CanReceive(w)
  /\ f.type = "garbage" \/ ~validateMessage(f)
  /\ ws' = [WsCloseCall(w) EXCEPT ![w].ignored = TRUE]
  /\ Silent
  /\ UNCHANGED <<cfgVars, clients, nextClientId, regVars, byteVars>>

\* ws.on('message'): JSON.parse throws (caught and logged), or
\* validateMessage fails (logged, return).
RecvBadFrame(w, f) ==
  /\ CanReceive(w)
  /\ f.type = "garbage" \/ ~validateMessage(f)
  /\ ws' = [ws EXCEPT ![w].dropped = @ \/ ~ws[w].authenticated,
                       ![w].ignored = @ \/ ws[w].authenticated,
                       ![w].heard = @ \/ ws[w].authenticated]
  /\ Silent
  /\ UNCHANGED <<cfgVars, clients, nextClientId, regVars, byteVars>>

\* A handler that stores the client before it looks at the token.
RecvAuthStoresFirst(w, f) ==
  /\ CanReceive(w)
  /\ validateMessage(f) /\ f.type = "auth"
  /\ ~ws[w].authenticated
  /\ clients' = clients \cup {nextClientId}
  /\ nextClientId' = nextClientId + 1
  /\ IF authenticateClient(f.token).success
     THEN /\ ws' = [ws EXCEPT ![w].authenticated = TRUE, ![w].clientId = nextClientId,
                              ![w].heard = TRUE, ![w].age = 0]
          /\ Commit(WsSend(Store, w, Msg("auth_success", nextClientId, 0, "")))
     ELSE /\ Commit(WsSend(Store, w,
                      Msg("auth_failed", 0, 0, authenticateClient(f.token).reason)))
          /\ ws' = [WsCloseCall(w) EXCEPT ![w].failed = TRUE]
  /\ UNCHANGED <<cfgVars, regVars, byteVars>>

\* ws.on('message'), not yet authenticated, an auth frame.
RecvAuth(w, f) ==
  /\ CanReceive(w)
  /\ validateMessage(f) /\ f.type = "auth"
  /\ ~ws[w].authenticated
  /\ IF authenticateClient(f.token).success
     THEN /\ ws' = [ws EXCEPT ![w].authenticated = TRUE, ![w].clientId = nextClientId,
                              ![w].heard = TRUE, ![w].age = 0]
          /\ clients' = clients \cup {nextClientId}
          /\ nextClientId' = nextClientId + 1
          /\ Commit(WsSend(Store, w, Msg("auth_success", nextClientId, 0, "")))
     ELSE /\ Commit(WsSend(Store, w,
                      Msg("auth_failed", 0, 0, authenticateClient(f.token).reason)))
          /\ ws' = [WsCloseCall(w) EXCEPT ![w].failed = TRUE]
          /\ UNCHANGED <<clients, nextClientId>>
  /\ UNCHANGED <<cfgVars, regVars, byteVars>>

\* ws.on('message'), not yet authenticated, a valid frame of another type.
RecvPreAuthOther(w, f) ==
  /\ CanReceive(w)
  /\ validateMessage(f) /\ f.type # "auth"
  /\ ~ws[w].authenticated
  /\ ws' = WsCloseCall(w)
  /\ Silent
  /\ UNCHANGED <<cfgVars, clients, nextClientId, regVars, byteVars>>

\* ------------------------------------------------------ socket states
\* net.Socket: "open"; "ended" after end() (our FIN sent, the peer has not
\* closed); "closing" once destroyed or closed by the peer, its 'close'
\* event not yet emitted; "closed" after the 'close' event. A data socket
\* is "connecting" until 'connect' ("connecting_ended": end() was called
\* before 'connect').
EndSock(st) ==
  CASE st = "open" -> "ended"
    [] st = "connecting" -> "connecting_ended"
    [] OTHER -> st
DestroySock(st) ==
  IF st \in {"open", "ended", "connecting", "connecting_ended"} THEN "closing" ELSE st

\* ------------------------------------------------------- tunnel manager
BindOutcomes == {"ok", "EADDRINUSE", "EACCES"}

\* A listener of this process is bound to the port.
PortBound(S, p) ==
  \E t \in TunIds : S.tun[t].listener = "listening" /\ S.tun[t].port = p

\* A listen that shares the port (reusePort): a bound port is not refused.
ListenShared(S, p, env) ==
  IF S.nextTun > MaxTunnels /\ env = "ok" THEN "EADDRINUSE" ELSE env

\* server.listen(remotePort, host): the operating system refuses a port a
\* listener is bound to; otherwise the outcome is the environment's (the
\* port may be held by another process or be in TIME_WAIT).
Listen(S, p, env) ==
  IF PortBound(S, p) THEN "EADDRINUSE"
  ELSE IF S.nextTun > MaxTunnels /\ env = "ok" THEN "EADDRINUSE"
  ELSE env

\* The checks without the registry test.
registerTunnelChecksNoOwner(S, spec) ==
  IF ~isPortAllowed(spec.remotePort, allowedPorts) THEN "Port not allowed" ELSE ""

\* The checks without the allowlist test.
registerTunnelChecksAnyPort(S, spec) ==
  IF MapHas(S.tunnels, spec.remotePort) THEN "Port already in use" ELSE ""

\* TunnelManager.registerTunnel, the checks before the listener is created:
\* the error thrown, "" if none.
registerTunnelChecks(S, spec) ==
  IF MapHas(S.tunnels, spec.remotePort) THEN "Port already in use"
  ELSE IF ~isPortAllowed(spec.remotePort, allowedPorts) THEN "Port not allowed"
  ELSE ""

\* TunnelManager.registerTunnel after the listen callback: the tunnel
\* object is stored under remotePort.
registerTunnelStore(S, cid, spec) ==
  LET t == S.nextTun
  IN [S EXCEPT !.tun[t] = [NoTun EXCEPT !.port = spec.remotePort, !.clientId = cid,
                                        !.listener = "listening"],
               !.tunnels = MapSet(@, spec.remotePort, t),
               !.nextTun = t + 1]

\* A registerTunnels call: the specs, the one being registered, the retry
\* attempt of registerTunnelWithRetry, where it is suspended ("bind": in
\* registerTunnel, awaiting the listen callback; "sleep": awaiting the
\* retryDelay timer) and the results so far.
RegTask(id, cid, specs) ==
  [id |-> id, cid |-> cid, specs |-> specs, i |-> 1, attempt |-> 0,
   phase |-> "run", results |-> <<>>]

RegSucceeded(task) ==
  [task EXCEPT !.i = @ + 1, !.attempt = 0, !.phase = "run",
     !.results = Append(@, Msg("tunnel_registered", task.specs[task.i].remotePort,
                               task.specs[task.i].localPort, ""))]
\* A registerTunnels without the try/catch around a spec: the first failure
\* ends the loop.
RegFailedEndsLoop(task, error) ==
  [task EXCEPT !.i = Len(task.specs) + 1, !.attempt = 0, !.phase = "run",
     !.results = Append(@, Msg("tunnel_failed", task.specs[task.i].remotePort, 0, error))]

RegFailed(task, error) ==
  [task EXCEPT !.i = @ + 1, !.attempt = 0, !.phase = "run",
     !.results = Append(@, Msg("tunnel_failed", task.specs[task.i].remotePort, 0, error))]

\* TunnelManager.registerTunnels, from the task's position to its next
\* suspension: a spec whose checks throw gets its failure result at once
\* (the error has no code, registerTunnelWithRetry rethrows it), another
\* one waits for its listen callback.
RECURSIVE RegAdvance(_, _)
RegAdvance(S, task) ==
  IF task.i > Len(task.specs) THEN [task EXCEPT !.phase = "done"]
  ELSE IF registerTunnelChecks(S, task.specs[task.i]) # ""
       THEN RegAdvance(S, RegFailed(task, registerTunnelChecks(S, task.specs[task.i])))
       ELSE [task EXCEPT !.phase = "bind"]

\* A registerTunnelWithRetry that rethrows every error.
RegBoundNoRetry(S, task, env) ==
  LET spec == task.specs[task.i]
      res == Listen(S, spec.remotePort, env)
  IN IF res = "ok"
     THEN LET S1 == registerTunnelStore(S, task.cid, spec)
          IN [S |-> S1, task |-> RegAdvance(S1, RegSucceeded(task))]
     ELSE [S |-> S, task |-> RegAdvance(S, RegFailed(task, res))]

\* The listen callback or the listener's 'error' event, in
\* registerTunnelWithRetry: [S, task].
RegBound(S, task, env) ==
  LET spec == task.specs[task.i]
      res == Listen(S, spec.remotePort, env)
  IN IF res = "ok"
     THEN LET S1 == registerTunnelStore(S, task.cid, spec)
          IN [S |-> S1, task |-> RegAdvance(S1, RegSucceeded(task))]
     ELSE IF res = "EADDRINUSE" /\ task.attempt < maxRetries
     THEN [S |-> S, task |-> [task EXCEPT !.phase = "sleep"]]
     ELSE [S |-> S, task |-> RegAdvance(S, RegFailed(task, res))]

\* index.js, 'registerTunnels' handler: one frame per result, in order.
RECURSIVE SendResults(_, _, _)
SendResults(S, cid, results) ==
  IF results = <<>> THEN S
  ELSE SendResults(sendToClient(S, cid, Head(results)), cid, Tail(results))

\* The state after a step of a registerTunnels call: the call is suspended,
\* or it has returned and its results go out.
AfterReg(S, task) ==
  /\ Commit(IF task.phase = "done" THEN SendResults(S, task.cid, task.results) ELSE S)
  /\ regs' = {x \in regs : x.id # task.id} \cup (IF task.phase = "done" THEN {} ELSE {task})

\* A name for a new registerTunnels call among those in progress.
FreeRegId == CHOOSE i \in 1..(MaxRegs + 1) : \A x \in regs : x.id # i

\* ws.on('message'), authenticated: handleMessage, register_tunnels (lim:
\* how many registerTunnels calls the clients keep in progress at once).
RecvRegisterTunnels(w, f, lim) ==
  /\ CanReceive(w)
  /\ Cardinality(regs) < lim
  /\ validateMessage(f) /\ f.type = "register_tunnels"
  /\ ws[w].authenticated
  /\ IF ws[w].clientId \in clients
     THEN AfterReg(Store, RegAdvance(Store, RegTask(FreeRegId, ws[w].clientId, f.tunnels)))
     ELSE Silent /\ UNCHANGED regs
  /\ ws' = [ws EXCEPT ![w].registerSeen = TRUE, ![w].heard = TRUE]
  /\ UNCHANGED <<cfgVars, clients, nextClientId, downs, byteVars>>

\* The listen of a registerTunnel call succeeds or fails.
ListenResult(task, env) ==
  /\ task \in regs
  /\ task.phase = "bind"
  /\ AfterReg(RegBound(Store, task, env).S, RegBound(Store, task, env).task)
  /\ UNCHANGED <<cfgVars, ctlVars, downs, byteVars>>

\* registerTunnelWithRetry: the retryDelay timer fires.
RetryTimer(task) ==
  /\ task \in regs
  /\ task.phase = "sleep"
  /\ AfterReg(Store, RegAdvance(Store, [task EXCEPT !.attempt = @ + 1]))
  /\ UNCHANGED <<cfgVars, ctlVars, downs, byteVars>>

\* ------------------------------------------------------------ teardown
\* The connection ids of a set, e.g. to fold a destroy over them.
DestroyAll(socks, ids) == [c \in ConnIds |-> IF c \in ids THEN DestroySock(socks[c]) ELSE socks[c]]

PendingOfPort(S, p) == {c \in S.pendingConnections : S.conn[c].port = p}

\* destroy() calls that throw during a teardown: extThrows, the
\* connections whose external socket's destroy throws; extLeft, those of
\* them whose socket the failed call leaves as it was; dataLeft, the
\* connections whose data socket's destroy throws and leaves it as it was
\* (it is not called when the external socket's destroy has thrown).
NoFaults == [extThrows |-> {}, extLeft |-> {}, dataLeft |-> {}]
Faults == {F \in [extThrows : SUBSET ConnIds, extLeft : SUBSET ConnIds,
                  dataLeft : SUBSET ConnIds] :
             F.extLeft \subseteq F.extThrows /\ F.dataLeft \cap F.extThrows = {}}

\* unregisterTunnel whose first exception leaves the function.
UnregisterSyncAborts(S, p, F) ==
  LET t == MapGetTun(S.tunnels, p)
      act == S.tun[t].connections
      pen == PendingOfPort(S, p)
  IN IF (F.extThrows \cup F.dataLeft) \cap (act \cup pen) # {} THEN S
     ELSE [S EXCEPT
        !.ext = DestroyAll(@, act \cup pen),
        !.data = DestroyAll(@, act),
        !.tun[t].connections = {},
        !.timer = [c \in ConnIds |-> IF c \in pen THEN FALSE ELSE @[c]],
        !.pendingConnections = @ \ pen,
        !.tun[t].listener = IF @ = "listening" THEN "closing" ELSE @]

\* TunnelManager.unregisterTunnel, from the lookup to server.close(), with
\* the destroy() calls of F throwing: each pair's two destroys are in one
\* try block (a throw of the first skips the second), each pending
\* record's clearTimeout and destroy in another, with the delete after it;
\* the catch blocks log. Then connections.clear() and server.close().
\* Sockets that are only in incomingSockets are not touched.
UnregisterSyncThrowing(S, p, F) ==
  LET t == MapGetTun(S.tunnels, p)
      act == S.tun[t].connections
      pen == PendingOfPort(S, p)
  IN [S EXCEPT
        !.ext = DestroyAll(@, (act \cup pen) \ F.extLeft),
        !.data = DestroyAll(@, act \ (F.extThrows \cup F.dataLeft)),
        !.tun[t].connections = {},
        !.timer = [c \in ConnIds |-> IF c \in pen THEN FALSE ELSE @[c]],
        !.pendingConnections = @ \ pen,
        !.tun[t].listener = IF @ = "listening" THEN "closing" ELSE @]

\* unregisterTunnel when no destroy() throws.
UnregisterSync(S, p) == UnregisterSyncThrowing(S, p, NoFaults)

\* A teardown call: the ports still to unregister (the first is the one in
\* progress), the tunnel object unregisterTunnel holds, and where it waits.
DownTask(id, ports, t, phase) == [id |-> id, ports |-> ports, t |-> t, phase |-> phase]

\* The loop of unregisterClientTunnels / stop from a list of ports:
\* unregisterTunnel returns at once for a port with no tunnel, and waits for
\* the listener's close callback otherwise.
RECURSIVE DownAdvanceThrowing(_, _, _, _)
DownAdvanceThrowing(S, id, ports, F) ==
  IF ports = <<>> THEN [S |-> S, done |-> TRUE, task |-> DownTask(id, <<>>, 0, "done")]
  ELSE IF ~MapHas(S.tunnels, Head(ports)) THEN DownAdvanceThrowing(S, id, Tail(ports), F)
  ELSE [S |-> UnregisterSyncThrowing(S, Head(ports), F), done |-> FALSE,
        task |-> DownTask(id, ports, MapGetTun(S.tunnels, Head(ports)), "close")]
DownAdvance(S, id, ports) == DownAdvanceThrowing(S, id, ports, NoFaults)

AfterDownAdvance(r) ==
  /\ Commit(r.S)
  /\ downs' = {x \in downs : x.id # r.task.id} \cup (IF r.done THEN {} ELSE {r.task})

\* unregisterClientTunnels: the ports whose tunnel belongs to the client, in
\* the Map's order.
PortsOfClient(S, cid) ==
  LET own == SelectSeq(S.tunnels, LAMBDA e : S.tun[e.t].clientId = cid)
  IN [i \in 1..Len(own) |-> own[i].port]

\* ws.on('close'): with a clientId, 'clientDisconnected' is emitted (index.js
\* starts unregisterClientTunnels) and the client leaves the table.
\* F: the destroy() calls that throw in the first unregisterTunnel.
WsCloseThrowing(w, F) ==
  /\ ws[w].st \in {"open", "closing"}
  /\ ws' = [ws EXCEPT ![w].st = "closed"]
  /\ IF ws[w].clientId # 0
     THEN /\ AfterDownAdvance(DownAdvanceThrowing(Store, ws[w].clientId,
                                 PortsOfClient(Store, ws[w].clientId), F))
          /\ clients' = clients \ {ws[w].clientId}
     ELSE Silent /\ UNCHANGED <<clients, downs>>
  /\ UNCHANGED <<cfgVars, nextClientId, regs, byteVars>>
WsClose(w) == WsCloseThrowing(w, NoFaults)

\* startPingInterval: a client in the table whose last pong is older than
\* pingTimeout is closed and leaves the table; 'clientDisconnected' waits
\* for the socket's 'close' event.
PingTimeout(w) ==
  /\ ws[w].clientId \in clients
  /\ ws' = [WsCloseCall(w) EXCEPT ![w].timedOut = TRUE]
  /\ clients' = clients \ {ws[w].clientId}
  /\ Silent
  /\ UNCHANGED <<cfgVars, nextClientId, regVars, byteVars>>

\* pingTimeout / pingInterval with the defaults 60000 / 30000: the tick
\* finds now - lastPing > pingTimeout when two earlier ticks have passed
\* since lastPing was set.
PingTimeoutTicks == 2

\* ws.on('pong'): lastPing = Date.now() for a client in the table.
Pong(w) ==
  /\ CanReceive(w)
  /\ ws[w].clientId # 0 /\ ws[w].clientId \in clients
  /\ ws' = [ws EXCEPT ![w].age = 0, ![w].heard = TRUE]
  /\ Silent
  /\ UNCHANGED <<cfgVars, clients, nextClientId, regVars, byteVars>>

\* The setInterval callback of startPingInterval: every client of the
\* table whose lastPing is older than pingTimeout is closed and deleted,
\* the others are pinged.
Stale(w) == ws[w].clientId \in clients /\ ws[w].age >= PingTimeoutTicks
PingTick ==
  /\ clients # {}
  /\ ws' = [w \in WsIds |->
             IF Stale(w) THEN [WsCloseCall(w)[w] EXCEPT !.timedOut = TRUE, !.heard = FALSE]
             ELSE IF ws[w].clientId \in clients
                  THEN [ws[w] EXCEPT !.age = @ + 1, !.heard = FALSE]
                  ELSE ws[w]]
  /\ clients' = {cid \in clients : ~Stale(WsOf(cid))}
  /\ Silent
  /\ UNCHANGED <<cfgVars, nextClientId, regVars, byteVars>>

\* server._connections: sockets the listener accepted whose 'close' event
\* has not been emitted.
Drained(t) == \A c \in ConnIds : conn[c].acc = t => ext[c] \in {"none", "closed"}

DeletePorts(m, ps) == SelectSeq(m, LAMBDA e : e.port \notin ps)

\* A 'close' event that resumes one waiting unregisterTunnel at a time.
ListenerClosedOneByOne(t) ==
  /\ tun[t].listener \in {"closing", "closed"}
  /\ Drained(t)
  /\ \E d \in downs :
       /\ d.t = t /\ d.phase = "close"
       /\ tunnels' = DeletePorts(tunnels, {Head(d.ports)})
       /\ downs' = (downs \ {d}) \cup {[d EXCEPT !.phase = "sleep"]}
  /\ sent' = <<>>
  /\ tun' = [tun EXCEPT ![t].listener = "closed"]
  /\ UNCHANGED <<cfgVars, ctlVars, regs, nextTun, pendingConnections,
                 timer, conn, ext, data, nextConn, byteVars>>

\* The listener's 'close' event (all its connections have ended): every
\* unregisterTunnel waiting on it resumes, deletes its port from the
\* registry and starts the 100 ms sleep.
ListenerClosed(t) ==
  /\ tun[t].listener \in {"closing", "closed"}
  /\ \E d \in downs : d.t = t /\ d.phase = "close"
  /\ Drained(t)
  /\ sent' = <<>>
  /\ tun' = [tun EXCEPT ![t].listener = "closed"]
  /\ tunnels' = DeletePorts(tunnels, {Head(d.ports) : d \in {x \in downs : x.t = t /\ x.phase = "close"}})
  /\ downs' = {IF d.t = t /\ d.phase = "close" THEN [d EXCEPT !.phase = "sleep"] ELSE d : d \in downs}
  /\ UNCHANGED <<cfgVars, ctlVars, regs, nextTun, pendingConnections,
                 timer, conn, ext, data, nextConn, byteVars>>

\* The 100 ms timer of unregisterTunnel fires: the loop goes on.
SleepDone(d) ==
  /\ d \in downs
  /\ d.phase = "sleep"
  /\ AfterDownAdvance(DownAdvance(Store, d.id, Tail(d.ports)))
  /\ UNCHANGED <<cfgVars, ctlVars, regs, byteVars>>

\* ------------------------------------------------------------ shutdown
\* NetGateServer.stop is a teardown call of its own (id StopId) in downs:
\* TunnelManager.stop walks the ports the registry had when it was called;
\* then ControlServer.stop closes the clients' connections, clears the
\* table and closes the control listener (phase "wss" until the close
\* callback, "stopped" afterwards).
StopId == 0
Stopping == \E d \in downs : d.id = StopId
ControlClosed == \E d \in downs : d.id = StopId /\ d.phase \in {"wss", "stopped"}
Stopped == \E d \in downs : d.id = StopId /\ d.phase = "stopped"

\* TunnelManager.stop: Array.from(this.tunnels.keys())
AllPorts(S) == [i \in 1..Len(S.tunnels) |-> S.tunnels[i].port]

\* ControlServer.stop: client.ws.close() for the clients of the table,
\* clients.clear(), wss.close(callback).
ControlStop ==
  /\ ws' = [w \in WsIds |-> IF ws[w].clientId \in clients /\ ws[w].st = "open"
                             THEN [ws[w] EXCEPT !.st = "closing"] ELSE ws[w]]
  /\ clients' = {}

\* The loop of TunnelManager.stop has advanced to r: it waits for a
\* listener, or it has returned and NetGateServer.stop goes on with
\* ControlServer.stop.
AfterStopAdvance(r) ==
  /\ Commit(r.S)
  /\ IF r.done
     THEN /\ ControlStop
          /\ downs' = {x \in downs : x.id # StopId} \cup {DownTask(StopId, <<>>, 0, "wss")}
     ELSE /\ UNCHANGED <<ws, clients>>
          /\ downs' = {x \in downs : x.id # StopId} \cup {r.task}
  /\ UNCHANGED <<cfgVars, nextClientId, regs, byteVars>>

\* SIGINT / SIGTERM: NetGateServer.stop, up to its first suspension.
StopBegin ==
  /\ ~Stopping
  /\ AfterStopAdvance(DownAdvance(Store, StopId, AllPorts(Store)))

\* The 100 ms timer of an unregisterTunnel of TunnelManager.stop fires.
StopSleepDone(d) ==
  /\ d \in downs
  /\ d.id = StopId /\ d.phase = "sleep"
  /\ AfterStopAdvance(DownAdvance(Store, StopId, Tail(d.ports)))

\* The close callback of the control listener, once its connections are
\* closing or gone: NetGateServer.stop returns.
StopDone(d) ==
  /\ d \in downs
  /\ d.id = StopId /\ d.phase = "wss"
  /\ \A w \in WsIds : ws[w].st # "open"
  /\ downs' = (downs \ {d}) \cup {[d EXCEPT !.phase = "stopped"]}
  /\ Silent
  /\ UNCHANGED <<cfgVars, ctlVars, regs, byteVars>>

\* --------------------------------------------------------- rendezvous
\* conn[c] holds what the closures of connection c captured: acc, the
\* listener that accepted the socket; port, its remotePort; tunnel, the
\* registry's tunnel at accept (0: none, no handler was registered);
\* notified, new_connection was sent (the cleanupConnection handlers are
\* registered); ready, handleConnectionReady dialed (its handlers are
\* registered); rtunnel, the registry's tunnel at that moment; piped, the
\* 'connect' handler has spliced the two sockets; expired (history), the
\* connectionTimeout callback has run.

\* tunnel.stats.activeConnections--
DecActive(S, t) == [S EXCEPT !.tun[t].active = @ - 1]

\* TunnelManager.handleIncomingConnection, for a socket accepted by the
\* listener of tunnel object acc.
handleIncomingConnection(S, acc) ==
  LET c == S.nextConn
      cid == S.tun[acc].clientId
      p == S.tun[acc].port
      t == MapGetTun(S.tunnels, p)
      S0 == [S EXCEPT !.nextConn = c + 1, !.ext[c] = "open",
                      !.conn[c] = [NoConn EXCEPT !.acc = acc, !.port = p]]
      S1 == [S0 EXCEPT !.conn[c].tunnel = t,
                       !.tun[t].incomingSockets = @ \cup {c},
                       !.tun[t].total = @ + 1,
                       !.tun[t].active = @ + 1]
  IN IF t = 0 THEN [S0 EXCEPT !.ext[c] = "ended"]
     ELSE IF ~CanSendToClient(cid)
     THEN DecActive([S1 EXCEPT !.ext[c] = "ended"], t)
     ELSE [sendToClient(S1, cid, Msg("new_connection", c, p, ""))
             EXCEPT !.timer[c] = TRUE,
                    !.pendingConnections = @ \cup {c},
                    !.conn[c].notified = TRUE]

\* A timeout callback that ends the socket and leaves the record in the
\* pending table.
DeadlineFiredKeepsRecord(S, c) ==
  DecActive([S EXCEPT !.ext[c] = EndSock(@), !.timer[c] = FALSE,
                      !.conn[c].expired = TRUE],
            S.conn[c].tunnel)

\* A timeout callback that leaves the count to the socket's 'close'.
DeadlineFiredKeepsCount(S, c) ==
  [S EXCEPT !.ext[c] = EndSock(@),
            !.pendingConnections = @ \ {c},
            !.timer[c] = FALSE,
            !.conn[c].expired = TRUE]

\* The setTimeout callback of handleIncomingConnection (connectionTimeout).
DeadlineFired(S, c) ==
  DecActive([S EXCEPT !.ext[c] = EndSock(@),
                      !.pendingConnections = @ \ {c},
                      !.timer[c] = FALSE,
                      !.conn[c].expired = TRUE],
            S.conn[c].tunnel)

\* A handleConnectionReady that dials for every id it is given.
handleConnectionReadyAnyId(S, c) ==
  LET t == MapGetTun(S.tunnels, S.conn[c].port)
      S0 == [S EXCEPT !.timer[c] = FALSE, !.pendingConnections = @ \ {c}]
  IN IF t = 0 THEN [S0 EXCEPT !.ext[c] = EndSock(@)]
     ELSE [S0 EXCEPT !.data[c] = "connecting",
                     !.conn[c].ready = TRUE,
                     !.conn[c].rtunnel = t]

\* TunnelManager.handleConnectionReady, up to net.createConnection.
handleConnectionReady(S, c) ==
  LET t == MapGetTun(S.tunnels, S.conn[c].port)
      S0 == [S EXCEPT !.timer[c] = FALSE, !.pendingConnections = @ \ {c}]
  IN IF c \notin S.pendingConnections THEN S
     ELSE IF t = 0 THEN [S0 EXCEPT !.ext[c] = EndSock(@)]
     ELSE [S0 EXCEPT !.data[c] = "connecting",
                     !.conn[c].ready = TRUE,
                     !.conn[c].rtunnel = t]

\* A cleanupConnection that drops the pending record and leaves its
\* timeout running.
cleanupConnectionKeepsTimer(S, c) ==
  LET pt == MapGetTun(S.tunnels, S.conn[c].port)
      S0 == [S EXCEPT !.pendingConnections = @ \ {c}]
      S1 == IF c \notin S.pendingConnections THEN S
            ELSE IF pt = 0 THEN S0
            ELSE DecActive(S0, pt)
      holders == {i \in 1..Len(S1.tunnels) : c \in S1.tun[S1.tunnels[i].t].connections}
      first == CHOOSE i \in holders : \A j \in holders : i <= j
      at == S1.tunnels[first].t
  IN IF holders = {} THEN S1
     ELSE DecActive([S1 EXCEPT !.ext[c] = DestroySock(@),
                               !.data[c] = DestroySock(@),
                               !.tun[at].connections = @ \ {c}],
                    at)

\* A cleanupConnection that counts the connection down whether or not it
\* finds a pending record.
cleanupConnectionCountsAlways(S, c) ==
  LET pt == MapGetTun(S.tunnels, S.conn[c].port)
      S0 == [S EXCEPT !.timer[c] = FALSE, !.pendingConnections = @ \ {c}]
      S1 == IF pt = 0 THEN S0 ELSE DecActive(S0, pt)
      holders == {i \in 1..Len(S1.tunnels) : c \in S1.tun[S1.tunnels[i].t].connections}
      first == CHOOSE i \in holders : \A j \in holders : i <= j
      at == S1.tunnels[first].t
  IN IF holders = {} THEN S1
     ELSE DecActive([S1 EXCEPT !.ext[c] = DestroySock(@),
                               !.data[c] = DestroySock(@),
                               !.tun[at].connections = @ \ {c}],
                    at)

\* TunnelManager.cleanupConnection
cleanupConnection(S, c) ==
  LET pt == MapGetTun(S.tunnels, S.conn[c].port)
      S0 == [S EXCEPT !.timer[c] = FALSE, !.pendingConnections = @ \ {c}]
      S1 == IF c \notin S.pendingConnections THEN S
            ELSE IF pt = 0 THEN S0
            ELSE DecActive(S0, pt)
      holders == {i \in 1..Len(S1.tunnels) : c \in S1.tun[S1.tunnels[i].t].connections}
      first == CHOOSE i \in holders : \A j \in holders : i <= j
      at == S1.tunnels[first].t
  IN IF holders = {} THEN S1
     ELSE DecActive([S1 EXCEPT !.ext[c] = DestroySock(@),
                               !.data[c] = DestroySock(@),
                               !.tun[at].connections = @ \ {c}],
                    at)

\* dataSocket.on('connect')
onDataConnect(S, c) ==
  [S EXCEPT !.conn[c].piped = TRUE,
            !.tun[S.conn[c].rtunnel].connections = @ \cup {c}]

\* dataSocket.on('error')
onDataError(S, c) ==
  DecActive([S EXCEPT !.ext[c] = EndSock(@), !.data[c] = DestroySock(@)],
            S.conn[c].rtunnel)

\* dataSocket.on('close')
onDataClose(S, c) ==
  DecActive([S EXCEPT !.ext[c] = EndSock(@),
                      !.tun[S.conn[c].rtunnel].connections = @ \ {c}],
            S.conn[c].rtunnel)

\* socket.on('close') / socket.on('error') of handleIncomingConnection,
\* first pair: the socket leaves incomingSockets.
onExtUntrack(S, c) ==
  IF S.conn[c].tunnel = 0 THEN S
  ELSE [S EXCEPT !.tun[S.conn[c].tunnel].incomingSockets = @ \ {c}]

\* socket.on('close') / socket.on('error'), second pair: cleanupConnection.
onExtCleanup(S, c) ==
  IF S.conn[c].notified THEN cleanupConnection(S, c) ELSE S

\* clientSocket.on('close') of handleConnectionReady.
onExtCloseReady(S, c) ==
  IF ~S.conn[c].ready THEN S
  ELSE DecActive([S EXCEPT !.data[c] = EndSock(@),
                           !.tun[S.conn[c].rtunnel].connections = @ \ {c}],
                 S.conn[c].rtunnel)

\* ws.on('message'), authenticated: handleMessage, connection_ready.
RecvConnectionReady(w, f) ==
  /\ CanReceive(w)
  /\ validateMessage(f) /\ f.type = "connection_ready"
  /\ ws[w].authenticated
  /\ Commit(handleConnectionReady(Store, f.connectionId))
  /\ ws' = [ws EXCEPT ![w].heard = TRUE]
  /\ UNCHANGED <<cfgVars, clients, nextClientId, regVars, byteVars>>

\* ws.on('message'), authenticated: handleMessage, connection_closed.
RecvConnectionClosed(w, f) ==
  /\ CanReceive(w)
  /\ validateMessage(f) /\ f.type = "connection_closed"
  /\ ws[w].authenticated
  /\ Commit(cleanupConnection(Store, f.connectionId))
  /\ ws' = [ws EXCEPT ![w].heard = TRUE]
  /\ UNCHANGED <<cfgVars, clients, nextClientId, regVars, byteVars>>

\* ws.on('message'), authenticated: handleMessage, status_request (a
\* status_response to a client in the table) and the types it ignores.
RecvOther(w, f) ==
  /\ CanReceive(w)
  /\ validateMessage(f) /\ f.type \in {"status_request", "ping", "pong", "auth"}
  /\ ws[w].authenticated
  /\ IF f.type = "status_request" /\ ws[w].clientId \in clients
     THEN Commit(WsSend(Store, w, Msg("status_response", ws[w].clientId, 0, "")))
     ELSE Silent
  /\ ws' = [ws EXCEPT ![w].ignored = @ \/ f.type \in {"ping", "auth"},
                       ![w].heard = TRUE]
  /\ UNCHANGED <<cfgVars, clients, nextClientId, regVars, byteVars>>

\* The listener of tunnel object t accepts an external socket (lim: how
\* many external connections the environment opens).
Accept(t, lim) ==
  /\ tun[t].listener = "listening"
  /\ nextConn <= lim
  /\ Commit(handleIncomingConnection(Store, t))
  /\ UNCHANGED <<cfgVars, ctlVars, regVars, byteVars>>

\* The connectionTimeout timer of a pending connection fires.
Deadline(c) ==
  /\ timer[c]
  /\ Commit(DeadlineFired(Store, c))
  /\ UNCHANGED <<cfgVars, ctlVars, regVars, byteVars>>

\* The data socket connects.
DataConnect(c) ==
  /\ data[c] \in {"connecting", "connecting_ended"}
  /\ Commit(onDataConnect(
       [Store EXCEPT !.data[c] = IF @ = "connecting" THEN "open" ELSE "ended"], c))
  /\ UNCHANGED <<cfgVars, ctlVars, regVars, byteVars>>

\* The data socket fails (connection refused, reset): 'error'.
DataError(c) ==
  /\ data[c] \in {"connecting", "connecting_ended", "open", "ended"}
  /\ Commit(onDataError(Store, c))
  /\ UNCHANGED <<cfgVars, ctlVars, regVars, byteVars>>

\* The client closes its end of the data socket.
DataPeerClose(c) ==
  /\ data[c] \in {"open", "ended"}
  /\ sent' = <<>>
  /\ data' = [data EXCEPT ![c] = "closing"]
  /\ UNCHANGED <<cfgVars, ctlVars, regVars, tunnels, tun, nextTun,
                 pendingConnections, timer, conn, ext, nextConn, byteVars>>

\* The data socket's 'close' event.
DataCloseEvent(c) ==
  /\ data[c] = "closing"
  /\ Commit(onDataClose([Store EXCEPT !.data[c] = "closed"], c))
  /\ UNCHANGED <<cfgVars, ctlVars, regVars, byteVars>>

\* The external user closes the connection.
ExtPeerClose(c) ==
  /\ ext[c] \in {"open", "ended"}
  /\ sent' = <<>>
  /\ ext' = [ext EXCEPT ![c] = "closing"]
  /\ UNCHANGED <<cfgVars, ctlVars, regVars, tunnels, tun, nextTun,
                 pendingConnections, timer, conn, data, nextConn, byteVars>>

\* The external socket fails: 'error', and the socket is destroyed.
ExtError(c) ==
  /\ ext[c] \in {"open", "ended"}
  /\ Commit(onExtCleanup(onExtUntrack([Store EXCEPT !.ext[c] = "closing"], c), c))
  /\ UNCHANGED <<cfgVars, ctlVars, regVars, byteVars>>

\* The external socket's 'close' event: its handlers in the order they were
\* registered.
ExtCloseEvent(c) ==
  /\ ext[c] = "closing"
  /\ Commit(onExtCloseReady(onExtCleanup(onExtUntrack(
       [Store EXCEPT !.ext[c] = "closed"], c), c), c))
  /\ UNCHANGED <<cfgVars, ctlVars, regVars, byteVars>>

\* --------------------------------------------------------------- splice
\* A stream in flowing mode before pipe(): a chunk that arrives then is
\* emitted to no listener and is gone.
ArriveExtFlowing(buf, b, piped) == IF piped THEN Append(buf, b) ELSE buf

\* A chunk arrives on the external socket. The socket has no 'data'
\* listener before pipe(): the stream is paused and keeps the chunk.
ArriveExt(buf, b, piped) == Append(buf, b)

\* clientSocket.pipe(dataSocket): the oldest buffered chunk is written to
\* the destination and leaves the buffer.
PipeChunk(buf) == Tail(buf)

ExtWrite(c, b) ==
  /\ ext[c] \in {"open", "ended"}
  /\ Len(wire[c].extOut) < MaxBytes
  /\ wire' = [wire EXCEPT ![c].extOut = Append(@, b),
                          ![c].early = IF conn[c].piped THEN @ ELSE @ + 1]
  /\ extIn' = [extIn EXCEPT ![c] = ArriveExt(@, b, conn[c].piped)]
  /\ Silent
  /\ UNCHANGED <<cfgVars, ctlVars, regVars, dataIn>>

\* The external socket emits 'data' without the counting listener.
ExtPumpUncounted(c) ==
  /\ conn[c].piped
  /\ extIn[c] # <<>>
  /\ ext[c] \in {"open", "ended"}
  /\ data[c] = "open"
  /\ wire' = [wire EXCEPT ![c].dataGot = Append(@, Head(extIn[c]))]
  /\ extIn' = [extIn EXCEPT ![c] = PipeChunk(@)]
  /\ Silent
  /\ UNCHANGED <<cfgVars, ctlVars, regVars, dataIn>>

\* The external socket emits 'data' with its oldest chunk (one byte): the
\* pipe writes it to the data socket and the listener of the 'connect'
\* handler adds chunk.length to the stats of the tunnel it captured.
ExtPump(c) ==
  /\ conn[c].piped
  /\ extIn[c] # <<>>
  /\ ext[c] \in {"open", "ended"}
  /\ data[c] = "open"
  /\ wire' = [wire EXCEPT ![c].dataGot = Append(@, Head(extIn[c]))]
  /\ extIn' = [extIn EXCEPT ![c] = PipeChunk(@)]
  /\ Commit([Store EXCEPT !.tun[conn[c].rtunnel].bytesIn = @ + 1])
  /\ UNCHANGED <<cfgVars, ctlVars, regVars, dataIn>>

DataWrite(c, b) ==
  /\ data[c] \in {"open", "ended"}
  /\ Len(wire[c].dataOut) < MaxBytes
  /\ wire' = [wire EXCEPT ![c].dataOut = Append(@, b)]
  /\ dataIn' = [dataIn EXCEPT ![c] = Append(@, b)]
  /\ Silent
  /\ UNCHANGED <<cfgVars, ctlVars, regVars, extIn>>

DataPump(c) ==
  /\ conn[c].piped
  /\ dataIn[c] # <<>>
  /\ data[c] \in {"open", "ended"}
  /\ ext[c] = "open"
  /\ wire' = [wire EXCEPT ![c].extGot = Append(@, Head(dataIn[c]))]
  /\ dataIn' = [dataIn EXCEPT ![c] = PipeChunk(@)]
  /\ Commit([Store EXCEPT !.tun[conn[c].rtunnel].bytesOut = @ + 1])
  /\ UNCHANGED <<cfgVars, ctlVars, regVars, extIn>>

\* -------------------------------------------------------- specification
AuthFrames == {Frame("auth", tk, <<>>, 0) : tk \in Tokens \cup {NoToken}}
JunkFrames == {Frame("garbage", NoToken, <<>>, 0), Frame("bogus", NoToken, <<>>, 0)}
RegFrames == {Frame("register_tunnels", NoToken, sl, 0) : sl \in SpecLists}
ReadyFrames == {Frame("connection_ready", NoToken, <<>>, c) : c \in ConnIds}
ClosedFrames == {Frame("connection_closed", NoToken, <<>>, c) : c \in ConnIds}
OtherFrames == {Frame("status_request", NoToken, <<>>, 0), Frame("pong", NoToken, <<>>, 0)}

Init ==
  /\ authTokens \in {{}, {"good"}}
  /\ allowedPorts \in {<<>>, <<[min |-> 1, max |-> 1]>>}
  /\ ws = [w \in WsIds |-> [st |-> "idle", authenticated |-> FALSE, clientId |-> 0,
                          dropped |-> FALSE, failed |-> FALSE,
                          timedOut |-> FALSE, registerSeen |-> FALSE,
                          ignored |-> FALSE, heard |-> FALSE, age |-> 0]]
  /\ clients = {}
  /\ nextClientId = 1
  /\ tunnels = <<>>
  /\ tun = [t \in TunIds |-> NoTun]
  /\ nextTun = 1
  /\ regs = {}
  /\ downs = {}
  /\ sent = <<>>
  /\ pendingConnections = {}
  /\ timer = [c \in ConnIds |-> FALSE]
  /\ conn = [c \in ConnIds |-> NoConn]
  /\ ext = [c \in ConnIds |-> "none"]
  /\ data = [c \in ConnIds |-> "none"]
  /\ nextConn = 1
  /\ extIn = [c \in ConnIds |-> <<>>]
  /\ dataIn = [c \in ConnIds |-> <<>>]
  /\ wire = [c \in ConnIds |-> NoWire]

\* The callbacks of the control server for connections W and frames of the
\* given sets (AF auth, JF unparseable or invalid, RF register_tunnels, OF
\* other types).
Control(W, AF, JF, RF, OF) ==
  \/ \E w \in W : WsConnect(w)
  \/ \E w \in W : \E f \in JF : RecvBadFrame(w, f)
  \/ \E w \in W : \E f \in AF : RecvAuth(w, f)
  \/ \E w \in W : \E f \in RF \cup OF : RecvPreAuthOther(w, f)
  \/ \E w \in W : \E f \in RF : RecvRegisterTunnels(w, f, MaxRegs)
  \/ \E w \in W : \E f \in OF \cup AF : RecvOther(w, f)
  \/ \E w \in W : WsClose(w)
  \/ \E w \in W : PingTimeout(w)

\* The timers and listener events of registration and teardown.
Registry ==
  \/ \E task \in regs : \E env \in BindOutcomes : ListenResult(task, env)
  \/ \E task \in regs : RetryTimer(task)
  \/ \E t \in TunIds : ListenerClosed(t)
  \/ \E d \in downs : SleepDone(d)

\* The rendezvous: external sockets, data sockets and the client's frames
\* about them.
Rendezvous(W, lim) ==
  \/ \E w \in W : \E f \in ReadyFrames : RecvConnectionReady(w, f)
  \/ \E w \in W : \E f \in ClosedFrames : RecvConnectionClosed(w, f)
  \/ \E t \in TunIds : Accept(t, lim)
  \/ \E c \in ConnIds : Deadline(c)
  \/ \E c \in ConnIds : DataConnect(c)
  \/ \E c \in ConnIds : DataError(c)
  \/ \E c \in ConnIds : DataPeerClose(c)
  \/ \E c \in ConnIds : DataCloseEvent(c)
  \/ \E c \in ConnIds : ExtPeerClose(c)
  \/ \E c \in ConnIds : ExtError(c)
  \/ \E c \in ConnIds : ExtCloseEvent(c)

\* The bytes of the spliced connections.
Splice ==
  \/ \E c \in ConnIds : \E b \in ByteVals : ExtWrite(c, b)
  \/ \E c \in ConnIds : ExtPump(c)
  \/ \E c \in ConnIds : \E b \in ByteVals : DataWrite(c, b)
  \/ \E c \in ConnIds : DataPump(c)

\* The whole server.
Next ==
  \/ Control(WsIds, AuthFrames, JunkFrames \cup AuthFrames, RegFrames, OtherFrames)
  \/ Registry
  \/ Rendezvous(WsIds, MaxConns)
  \/ Splice

Spec == Init /\ [][Next]_vars

\* ------------------------------------------------------------ scenarios
\* The whole server is checked in parts: each part is the server with its
\* clients restricted to the frames of one concern.
GoodAuth == {Frame("auth", "good", <<>>, 0)}
OneSpecFrames == {f \in RegFrames : Len(f.tunnels) = 1}
StatusFrames == {Frame("status_request", NoToken, <<>>, 0)}

\* Authentication: any frame before and after auth, on any connection;
\* register_tunnels frames with one spec.
InitAuth == Init /\ allowedPorts = <<>>
NextAuth ==
  \/ \E w \in WsIds : WsConnect(w)
  \/ \E w \in WsIds : \E f \in JunkFrames \cup AuthFrames : RecvBadFrame(w, f)
  \/ \E w \in WsIds : \E f \in AuthFrames : RecvAuth(w, f)
  \/ \E w \in WsIds : \E f \in OneSpecFrames : RecvPreAuthOther(w, f)
  \/ \E w \in WsIds : \E f \in OneSpecFrames : RecvRegisterTunnels(w, f, 1)
  \/ \E w \in WsIds : \E f \in StatusFrames \cup GoodAuth : RecvOther(w, f)
  \/ \E w \in WsIds : WsClose(w)
  \/ Registry

SpecAuth == InitAuth /\ [][NextAuth]_vars

\* Registration and teardown: clients that authenticate, register any list
\* of specs one call at a time, and disconnect or time out at any moment.
InitReg == Init /\ authTokens = {"good"} /\ allowedPorts = <<>>
NextReg ==
  \/ \E w \in WsIds : WsConnect(w)
  \/ \E w \in WsIds : \E f \in GoodAuth : RecvAuth(w, f)
  \/ \E w \in WsIds : \E f \in RegFrames : RecvRegisterTunnels(w, f, 1)
  \/ \E w \in WsIds : WsClose(w)
  \/ \E w \in WsIds : PingTimeout(w)
  \/ Registry

SpecReg == InitReg /\ [][NextReg]_vars

\* The same with either allowlist of Init: none, or port 1 only.
InitAllow == Init /\ authTokens = {"good"}
SpecAllow == InitAllow /\ [][NextReg]_vars

\* Concurrent registration: sessions whose one-spec registrations overlap,
\* with disconnects at any moment.
NextBind ==
  \/ \E w \in WsIds : WsConnect(w)
  \/ \E w \in WsIds : \E f \in GoodAuth : RecvAuth(w, f)
  \/ \E w \in WsIds : \E f \in OneSpecFrames : RecvRegisterTunnels(w, f, MaxRegs)
  \/ \E w \in WsIds : WsClose(w)
  \/ Registry

SpecBind == InitReg /\ [][NextBind]_vars

\* The data plane: one session that registers one spec per frame, external
\* connections to its tunnels, the rendezvous and the teardown.
OneSession == {1}
NextConn ==
  \/ \E w \in OneSession : WsConnect(w)
  \/ \E w \in OneSession : \E f \in GoodAuth : RecvAuth(w, f)
  \/ \E w \in OneSession : \E f \in OneSpecFrames : RecvRegisterTunnels(w, f, 1)
  \/ \E w \in OneSession : WsClose(w)
  \/ Registry
  \/ Rendezvous(OneSession, MaxConns)

SpecConn == InitReg /\ [][NextConn]_vars

\* The splice: one session with a tunnel on port 1, one external
\* connection, the bytes of both peers before and after the data socket
\* connects, and the peers' closes.
PortOneFrames == {f \in OneSpecFrames : f.tunnels[1].remotePort = 1}
NextPipe ==
  \/ \E w \in OneSession : WsConnect(w)
  \/ \E w \in OneSession : \E f \in GoodAuth : RecvAuth(w, f)
  \/ \E w \in OneSession : \E f \in PortOneFrames : RecvRegisterTunnels(w, f, 1)
  \/ \E task \in regs : ListenResult(task, "ok")
  \/ \E w \in OneSession : \E f \in ReadyFrames : RecvConnectionReady(w, f)
  \/ \E t \in TunIds : Accept(t, 1)
  \/ \E c \in ConnIds : DataConnect(c)
  \/ \E c \in ConnIds : DataPeerClose(c)
  \/ \E c \in ConnIds : DataCloseEvent(c)
  \/ \E c \in ConnIds : ExtPeerClose(c)
  \/ \E c \in ConnIds : ExtCloseEvent(c)
  \/ Splice

SpecPipe == InitReg /\ [][NextPipe]_vars

\* Teardown with destroy() calls that throw: one session with a tunnel on
\* port 1, its external connections, pending and spliced, and a disconnect
\* whose teardown meets any set of throwing destroys.
NextThrow ==
  \/ \E w \in OneSession : WsConnect(w)
  \/ \E w \in OneSession : \E f \in GoodAuth : RecvAuth(w, f)
  \/ \E w \in OneSession : \E f \in PortOneFrames : RecvRegisterTunnels(w, f, 1)
  \/ \E w \in OneSession : \E F \in Faults : WsCloseThrowing(w, F)
  \/ Registry
  \/ Rendezvous(OneSession, MaxConns)
SpecThrow == InitReg /\ [][NextThrow]_vars

\* The byte counters: the splice with two external connections, each
\* peer writing at most MaxBytes bytes per connection (all of one value:
\* only their number is counted).
OneByte == {7}
NextBytes ==
  \/ \E w \in OneSession : WsConnect(w)
  \/ \E w \in OneSession : \E f \in GoodAuth : RecvAuth(w, f)
  \/ \E w \in OneSession : \E f \in PortOneFrames : RecvRegisterTunnels(w, f, 1)
  \/ \E task \in regs : ListenResult(task, "ok")
  \/ \E w \in OneSession : \E f \in ReadyFrames : RecvConnectionReady(w, f)
  \/ \E t \in TunIds : Accept(t, MaxConns)
  \/ \E c \in ConnIds : DataConnect(c)
  \/ \E c \in ConnIds : DataPeerClose(c)
  \/ \E c \in ConnIds : DataCloseEvent(c)
  \/ \E c \in ConnIds : \E b \in OneByte : ExtWrite(c, b)
  \/ \E c \in ConnIds : ExtPump(c)
  \/ \E c \in ConnIds : \E b \in OneByte : DataWrite(c, b)
  \/ \E c \in ConnIds : DataPump(c)
SpecBytes == InitReg /\ [][NextBytes]_vars

\* The pending table: one session with a tunnel on port 1, its external
\* connections, the rendezvous and the teardown; an armed connectionTimeout
\* timer fires.
NextPend ==
  \/ \E w \in OneSession : WsConnect(w)
  \/ \E w \in OneSession : \E f \in GoodAuth : RecvAuth(w, f)
  \/ \E w \in OneSession : \E f \in PortOneFrames : RecvRegisterTunnels(w, f, 1)
  \/ \E w \in OneSession : WsClose(w)
  \/ Registry
  \/ Rendezvous(OneSession, MaxConns)

SpecPend == InitReg /\ [][NextPend]_vars /\ \A c \in ConnIds : WF_vars(Deadline(c))

\* Keepalive: one session that registers one spec per frame and may fall
\* silent, with one external connection to its tunnels. Every event the
\* server itself schedules happens: a connection on which close() was
\* called emits 'close' (at the latest when the closing handshake times
\* out), timers fire, listen and close callbacks and the 'close' events
\* of destroyed sockets are delivered. The peers owe nothing.
CloseCompletes(w) == ws[w].st = "closing" /\ WsClose(w)
NextKeepalive ==
  \/ \E w \in OneSession : WsConnect(w)
  \/ \E w \in OneSession : \E f \in GoodAuth : RecvAuth(w, f)
  \/ \E w \in OneSession : \E f \in OneSpecFrames : RecvRegisterTunnels(w, f, 1)
  \/ \E w \in OneSession : WsClose(w)
  \/ \E w \in OneSession : PingTimeout(w)
  \/ Registry
  \/ Rendezvous(OneSession, 1)
ServerProgress ==
  /\ \A w \in WsIds : WF_vars(CloseCompletes(w))
  /\ \A t \in TunIds : WF_vars(ListenerClosed(t))
  /\ WF_vars(\E d \in downs : SleepDone(d))
  /\ WF_vars(\E task \in regs : RetryTimer(task))
  /\ WF_vars(\E task \in regs : \E env \in BindOutcomes : ListenResult(task, env))
  /\ \A c \in ConnIds : WF_vars(Deadline(c))
  /\ \A c \in ConnIds : WF_vars(ExtCloseEvent(c))
  /\ \A c \in ConnIds : WF_vars(DataCloseEvent(c))

SpecKeepalive == InitReg /\ [][NextKeepalive]_vars /\ ServerProgress

\* Frames the server ignores: the data plane of one session, with frames
\* that do not parse, fail validation or have a type handleMessage does
\* not expect, at any moment after authentication.
UnexpectedFrames == GoodAuth \cup {Frame("ping", NoToken, <<>>, 0)}
NextFrames ==
  \/ NextConn
  \/ \E w \in OneSession : \E f \in JunkFrames \cup AuthFrames :
       ws[w].authenticated /\ RecvBadFrame(w, f)
  \/ \E w \in OneSession : \E f \in UnexpectedFrames : RecvOther(w, f)
SpecFrames == InitReg /\ [][NextFrames]_vars

\* Two clients and the data plane: both sessions register one spec per
\* frame and send connection_ready and connection_closed for any
\* connection id; one external connection.
NextOwner ==
  \/ \E w \in WsIds : WsConnect(w)
  \/ \E w \in WsIds : \E f \in GoodAuth : RecvAuth(w, f)
  \/ \E w \in WsIds : \E f \in OneSpecFrames : RecvRegisterTunnels(w, f, 1)
  \/ \E task \in regs : ListenResult(task, "ok")
  \/ Rendezvous(WsIds, 1)
SpecOwner == InitReg /\ [][NextOwner]_vars

\* Keepalive ticks: sessions that register one spec per frame, ask for
\* the status, answer pings or not, and the interval timer.
NextPing ==
  \/ \E w \in WsIds : WsConnect(w)
  \/ \E w \in WsIds : \E f \in GoodAuth : RecvAuth(w, f)
  \/ \E w \in WsIds : \E f \in PortOneFrames : RecvRegisterTunnels(w, f, 1)
  \/ \E w \in WsIds : \E f \in StatusFrames : RecvOther(w, f)
  \/ \E w \in WsIds : Pong(w)
  \/ PingTick
  \/ \E w \in WsIds : WsClose(w)
  \/ Registry
SpecPing == InitReg /\ [][NextPing]_vars

\* Shutdown: sessions that connect (while the control listener is open),
\* authenticate, register one spec per frame and close, and one stop().
NextStop ==
  \/ \E w \in WsIds : ~ControlClosed /\ WsConnect(w)
  \/ \E w \in WsIds : \E f \in GoodAuth : RecvAuth(w, f)
  \/ \E w \in WsIds : \E f \in OneSpecFrames : RecvRegisterTunnels(w, f, 1)
  \/ \E w \in WsIds : WsClose(w)
  \/ \E task \in regs : \E env \in BindOutcomes : ListenResult(task, env)
  \/ \E task \in regs : RetryTimer(task)
  \/ \E t \in TunIds : ListenerClosed(t)
  \/ \E d \in downs : d.id # StopId /\ SleepDone(d)
  \/ StopBegin
  \/ \E d \in downs : StopSleepDone(d)
  \/ \E d \in downs : StopDone(d)
SpecStop == InitReg /\ [][NextStop]_vars

\* The client and the server together: one NetGateClient with one
\* configured tunnel. It dials, authenticates and registers its tunnels;
\* whenever it finds its control connection closed (which it may before
\* the server does: the server learns it from the 'close' event or from
\* the keepalive tick) it dials again, and on 'reconnected' it registers
\* again. The ports are free for the server to bind.
ClientTunnels == <<TunnelSpec(1)>>

\* The connection the ControlClient holds: the one it dialed last.
Current(w) == ws[w].st # "idle" /\ \A v \in WsIds : v > w => ws[v].st = "idle"

\* ControlClient.isConnected: the channel is up and authenticated.
isConnected(w) == Current(w) /\ ws[w].authenticated /\ ws[w].st = "open"

\* ControlClient.connect, and its reconnect: the dial, then the auth frame.
ClientDial(w) == WsConnect(w)
ClientAuth(w) == Current(w) /\ \E f \in GoodAuth : RecvAuth(w, f)

\* NetGateClient.registerTunnels, called once after connect() resolves and
\* once per 'reconnected' event.
ClientRegisterTunnels(w) ==
  /\ isConnected(w)
  /\ ~ws[w].registerSeen
  /\ RecvRegisterTunnels(w, Frame("register_tunnels", NoToken, ClientTunnels, 0), MaxRegs)

\* The server learns that a connection the client has left is gone.
Abandoned(w) == ~Current(w) /\ ws[w].st \in {"open", "closing"}
NextClient ==
  \/ \E w \in WsIds : ClientDial(w)
  \/ \E w \in WsIds : ClientAuth(w)
  \/ \E w \in WsIds : ClientRegisterTunnels(w)
  \/ \E w \in WsIds : WsClose(w)
  \/ \E w \in WsIds : Abandoned(w) /\ PingTimeout(w)
  \/ \E task \in regs : ListenResult(task, "ok")
  \/ \E task \in regs : RetryTimer(task)
  \/ \E t \in TunIds : ListenerClosed(t)
  \/ \E d \in downs : SleepDone(d)
ClientProgress ==
  /\ \A w \in WsIds : WF_vars(ClientAuth(w))
  /\ \A w \in WsIds : WF_vars(ClientRegisterTunnels(w))
  /\ \A w \in WsIds : WF_vars(Abandoned(w) /\ WsClose(w))
  /\ WF_vars(\E task \in regs : ListenResult(task, "ok"))
  /\ WF_vars(\E task \in regs : RetryTimer(task))
  /\ \A t \in TunIds : WF_vars(ListenerClosed(t))
  /\ WF_vars(\E d \in downs : SleepDone(d))
SpecClient == InitReg /\ [][NextClient]_vars /\ ClientProgress

\* ------------------------------------------------------------- claims
Listening(t) == tun[t].listener = "listening"
InRegistry(t) == \E i \in 1..Len(tunnels) : tunnels[i].t = t

\* C1: at most one tunnel exists per remotePort: no two bound listeners
\* share a port, no two registry entries share a port, and a registry
\* entry holds a tunnel of the port it is stored under.
C1_OneTunnelPerPort ==
  /\ \A t1, t2 \in TunIds :
       (t1 # t2 /\ Listening(t1) /\ Listening(t2)) => tun[t1].port # tun[t2].port
  /\ \A i, j \in 1..Len(tunnels) : i # j => tunnels[i].port # tunnels[j].port
  /\ \A i \in 1..Len(tunnels) : tun[tunnels[i].t].port = tunnels[i].port

\* Two registrations of one port overlapped (both passed the registry check
\* before either listener was bound): one is bound, the other was refused
\* and waits to retry.
C1_Witness ==
  \E t \in TunIds : \E task \in regs :
    /\ Listening(t) /\ InRegistry(t)
    /\ task.phase = "sleep"
    /\ task.specs[task.i].remotePort = tun[t].port
    /\ task.cid # tun[t].clientId

\* C2: once a client's control connection has closed and the teardown its
\* disconnect started has run, no tunnel owned by that client is in the
\* registry or holds a bound listener.
TeardownRunning(cid) == \E d \in downs : d.id = cid
OwnedBy(cid) == {t \in TunIds : tun[t].listener # "none" /\ tun[t].clientId = cid}
C2_NoTunnelAfterTeardown ==
  \A w \in WsIds :
    (ws[w].st = "closed" /\ ws[w].clientId # 0 /\ ~TeardownRunning(ws[w].clientId))
      => \A t \in OwnedBy(ws[w].clientId) : ~Listening(t) /\ ~InRegistry(t)

\* C8: an auth frame on a connection awaiting authentication is accepted
\* exactly when the allowlist is empty or contains the frame's token.
C8_AcceptIffAllowed ==
  [][\A w \in WsIds : \A f \in AuthFrames :
       (ws[w].st = "open" /\ RecvAuth(w, f))
         => (ws'[w].authenticated <=> (authTokens = {} \/ f.token \in authTokens))]_vars

\* C9: a connection that received, before authentication, a frame that is
\* not parseable or not valid is no longer open.
C9_BadFrameClosesBeforeAuth ==
  \A w \in WsIds : (ws[w].dropped /\ ~ws[w].authenticated) => ws[w].st # "open"

\* C10: with a non-empty allowlist, a connection whose auth frame was
\* refused is closed, never gets a session and never owns a tunnel.
C10_RefusedConnectionGetsNothing ==
  authTokens # {} =>
    \A w \in WsIds :
      ws[w].failed => /\ ws[w].st # "open"
                      /\ ~ws[w].authenticated
                      /\ ws[w].clientId = 0
                      /\ OwnedBy(ws[w].clientId) = {}

\* The connections of a tunnel object that are not spliced yet: in the
\* pending table under its port, or dialing their data socket.
PendingOf(t) == {c \in pendingConnections : conn[c].port = tun[t].port}
DialingOf(t) == {c \in ConnIds : conn[c].rtunnel = t /\ ~conn[c].piped
                                 /\ data[c] \in {"connecting", "connecting_ended"}}

\* C3: for each tunnel of the registry that is not being torn down,
\* activeConnections is the number of its connections that are not spliced
\* yet plus the number of entries of its connections map, and it is never
\* negative.
C3_ActiveCountsConnections ==
  \A i \in 1..Len(tunnels) :
    LET t == tunnels[i].t
    IN Listening(t) =>
       /\ tun[t].active >= 0
       /\ tun[t].active = Cardinality(PendingOf(t)) + Cardinality(DialingOf(t))
                            + Cardinality(tun[t].connections)

\* C4: once every external connection a tunnel accepted has ended (both
\* sockets closed, no pending record), the tunnel still being up, its
\* activeConnections is back at the value it had before them: one
\* increment and one decrement each.
Ended(c) ==
  /\ ext[c] = "closed"
  /\ data[c] \in {"none", "closed"}
  /\ c \notin pendingConnections
C4_ActiveReturnsToPriorValue ==
  \A t \in TunIds :
    (Listening(t) /\ tun[t].total > 0 /\ \A c \in ConnIds : conn[c].tunnel = t => Ended(c))
      => tun[t].active = 0

\* C5: every record of the pending table is eventually removed from it.
C5_PendingEventuallyRemoved ==
  \A c \in ConnIds : (c \in pendingConnections) ~> (c \notin pendingConnections)

\* A pending record was removed by its deadline: the client never answered
\* new_connection and the external user did not close.
C5_Witness ==
  \E c \in ConnIds :
    /\ conn[c].notified /\ ~conn[c].ready
    /\ c \notin pendingConnections
    /\ ext[c] = "ended"

\* C6: while a teardown waits for the listener's close callback, every
\* socket the listener accepted has been destroyed or is closed, so that
\* the callback does not depend on the external users.
C6_TeardownDestroysEverySocket ==
  \A d \in downs :
    d.phase = "close" =>
      \A c \in ConnIds : conn[c].acc = d.t => ext[c] \notin {"open", "ended"}

C11_PingTimeoutCleansUp ==
  /\ \A w \in WsIds : [](ws[w].timedOut => ws[w].clientId \notin clients)
  /\ \A w \in WsIds : ws[w].timedOut ~> (ws[w].st = "closed")
  /\ \A w \in WsIds : \A t \in TunIds :
       (ws[w].timedOut /\ ws[w].st # "closed" /\ tun[t].clientId = ws[w].clientId
          /\ Listening(t) /\ InRegistry(t))
         ~> (ws[w].st = "closed" /\ ~Listening(t))

\* The results a registerTunnels call has collected so far answer its specs
\* one by one: result j is about spec j.
ResultOf(task, j) == task.results[j]
FailedWith(m, p, error) == m.type = "tunnel_failed" /\ m.x = p /\ m.err = error
Registered(m, p) == m.type = "tunnel_registered" /\ m.x = p

\* C12: with a non-empty allowlist a port outside it never is in the
\* registry nor has a listener, its spec gets the result tunnel_failed
\* "not allowed" and no tunnel_registered frame ever names it; with an empty
\* allowlist no spec is refused as not allowed.
C12_OnlyAllowedPortsRegistered ==
  /\ \A i \in 1..Len(tunnels) : isPortAllowed(tunnels[i].port, allowedPorts)
  /\ \A t \in TunIds : tun[t].listener # "none" => isPortAllowed(tun[t].port, allowedPorts)
  /\ \A task \in regs : \A j \in 1..Len(task.results) :
       IF isPortAllowed(task.specs[j].remotePort, allowedPorts)
       THEN ResultOf(task, j).err # "Port not allowed"
       ELSE FailedWith(ResultOf(task, j), task.specs[j].remotePort, "Port not allowed")
  /\ \A i \in 1..Len(sent) :
       /\ sent[i].m.type = "tunnel_registered" => isPortAllowed(sent[i].m.x, allowedPorts)
       /\ (sent[i].m.type = "tunnel_failed" /\ sent[i].m.err = "Port not allowed")
            => ~isPortAllowed(sent[i].m.x, allowedPorts)
  /\ allowedPorts = <<>> => \A p \in Ports : isPortAllowed(p, allowedPorts)

\* A refused spec's tunnel_failed frame has gone out, after the frame of an
\* allowed port's registration.
C12_Witness ==
  /\ allowedPorts # <<>>
  /\ \E i, j \in 1..Len(sent) :
       /\ i < j
       /\ sent[i].m.type = "tunnel_registered"
       /\ FailedWith(sent[j].m, 2, "Port not allowed")
  /\ \E t \in TunIds : Listening(t)

\* The frames of the last callback that refuse port p as owned.
RefusedAsOwned(frames, p) ==
  \E i \in 1..Len(frames) : FailedWith(frames[i].m, p, "Port already in use")

\* C13: in every state a request for a port the registry holds is refused
\* by the checks, before any listener is created, and ends the call with
\* tunnel_failed "already in use"; the step that refuses it starts no bind,
\* leaves no retry behind and changes neither the registry nor any tunnel
\* object.
C13_OwnedPortRefused ==
  /\ [](\A p \in Ports : \A cid \in 1..MaxWs :
         MapHas(tunnels, p) =>
           LET task == RegAdvance(Store, RegTask(FreeRegId, cid, <<TunnelSpec(p)>>))
           IN /\ registerTunnelChecks(Store, TunnelSpec(p)) = "Port already in use"
              /\ task.phase = "done" /\ task.attempt = 0
              /\ task.results = <<Msg("tunnel_failed", p, 0, "Port already in use")>>)
  /\ [][\A p \in Ports :
          (RefusedAsOwned(sent', p) /\ ~RefusedAsOwned(sent, p)) =>
            /\ MapHas(tunnels, p)
            /\ tunnels' = tunnels /\ tun' = tun /\ nextTun' = nextTun
            /\ regs' \subseteq regs]_vars

\* Port 1 is owned by a listening tunnel and a request for it has just been
\* refused.
C13_Witness ==
  /\ RefusedAsOwned(sent, 1)
  /\ \E t \in TunIds : Listening(t) /\ InRegistry(t) /\ tun[t].port = 1

\* What a step makes of a registerTunnels call of one spec: the call as it
\* is suspended afterwards, if it is.
After(task) == {x \in regs' : x.id = task.id}
PortOf(task) == task.specs[task.i].remotePort

\* The retryDelay timer of a call fired and registerTunnel is binding again,
\* as the next attempt.
RetryRebinds(task) ==
  \E x \in After(task) : x.phase = "bind" /\ x.attempt = task.attempt + 1

\* The retry found the port in the registry: it ends the call with
\* tunnel_failed "already in use", without a bind.
RetryRefusedAsOwned(task) ==
  /\ After(task) = {}
  /\ MapHas(tunnels, PortOf(task))
  /\ tunnels' = tunnels /\ tun' = tun /\ nextTun' = nextTun
  /\ CanSendToClient(task.cid) => RefusedAsOwned(sent', PortOf(task))

\* The outcomes of a bind: address in use with retries left suspends the
\* call for the wait; success stores the tunnel; otherwise the call fails,
\* with address in use only if no retry is left.
BindOutcome(task) ==
  \/ /\ task.attempt < maxRetries /\ nextTun' = nextTun
     /\ \E x \in After(task) : x.phase = "sleep" /\ x.attempt = task.attempt
  \/ /\ After(task) = {} /\ nextTun' = nextTun + 1
     /\ MapGetTun(tunnels', PortOf(task)) = nextTun
     /\ tun'[nextTun].listener = "listening" /\ tun'[nextTun].clientId = task.cid
     /\ CanSendToClient(task.cid) => Len(sent') = 1 /\ Registered(sent'[1].m, PortOf(task))
  \/ /\ After(task) = {} /\ nextTun' = nextTun /\ tunnels' = tunnels
     /\ CanSendToClient(task.cid) =>
          /\ Len(sent') = 1
          /\ \/ FailedWith(sent'[1].m, PortOf(task), "EACCES")
             \/ FailedWith(sent'[1].m, PortOf(task), "EADDRINUSE") /\ task.attempt = maxRetries

AttemptsBounded ==
  \A task \in regs : /\ task.attempt <= maxRetries
                     /\ task.phase = "sleep" => task.attempt < maxRetries

\* C14: a bind that fails with address in use is followed, after the wait,
\* by another bind, at most maxRetries times; tunnel_failed for it comes
\* only from the bind of the last attempt; another bind error fails at
\* once; a retry's successful bind registers the tunnel.
C14_AddressInUseRetried ==
  /\ []AttemptsBounded
  /\ [][\A task \in regs : task \notin regs' =>
          /\ task.phase = "sleep" => RetryRebinds(task)
          /\ task.phase = "bind" => BindOutcome(task)]_vars

\* C14, amended: the same, except that a retry whose port has entered the
\* registry during the wait ends at once with tunnel_failed "already in
\* use", without a bind and before the retries are exhausted.
C14_RetriedUnlessOwned ==
  /\ []AttemptsBounded
  /\ [][\A task \in regs : task \notin regs' =>
          /\ task.phase = "sleep" => (RetryRebinds(task) \/ RetryRefusedAsOwned(task))
          /\ task.phase = "bind" => BindOutcome(task)]_vars

\* The bind of the last retry of a call is in progress, after a callback
\* that registered a tunnel.
C14_Witness ==
  /\ \E task \in regs : task.phase = "bind" /\ task.attempt = maxRetries
  /\ \E i \in 1..Len(sent) : sent[i].m.type = "tunnel_registered"

\* Result j of a call answers spec j: tunnel_registered with the spec's
\* ports, or tunnel_failed with the spec's remotePort and an error string.
Answers(m, spec) ==
  \/ m = Msg("tunnel_registered", spec.remotePort, spec.localPort, "")
  \/ m.type = "tunnel_failed" /\ m.x = spec.remotePort /\ m.err # ""
AnswersInOrder(results, specs, n) ==
  /\ Len(results) = n
  /\ \A j \in 1..n : Answers(results[j], specs[j])

\* C15: a call that is suspended at spec i has i - 1 results, result j for
\* spec j; a call that returns at once has one result per spec, in order;
\* when a suspended call returns, the frames that go out to its client are
\* one per spec, in the order of the specs, the earlier ones being the
\* results it had, and the one of the spec it was binding tunnel_registered
\* if the bind succeeded, whatever the earlier results were.
C15_OneResultPerSpecInOrder ==
  /\ [](\A task \in regs :
         /\ task.i <= Len(task.specs)
         /\ AnswersInOrder(task.results, task.specs, task.i - 1))
  /\ [](\A f \in RegFrames : \A cid \in clients :
         LET task == RegAdvance(Store, RegTask(FreeRegId, cid, f.tunnels))
         IN task.phase = "done" => AnswersInOrder(task.results, f.tunnels, Len(f.tunnels)))
  /\ [][\A task \in regs : (After(task) = {} /\ CanSendToClient(task.cid)) =>
          /\ Len(sent') = Len(task.specs)
          /\ \A j \in 1..Len(sent') :
               /\ sent'[j].w = WsOf(task.cid)
               /\ Answers(sent'[j].m, task.specs[j])
               /\ j < task.i => sent'[j].m = task.results[j]
          /\ nextTun' > nextTun => Registered(sent'[task.i].m, PortOf(task))]_vars

\* The answers to two specs have gone out: the first failed, the second was
\* registered after it.
C15_Witness ==
  /\ Len(sent) = 2
  /\ sent[1].m.type = "tunnel_failed"
  /\ sent[2].m.type = "tunnel_registered"

\* A step that is an event of connection c's sockets.
SocketEventOf(c) == ext'[c] # ext[c] \/ data'[c] # data[c]

\* C16: the deadline's callback finds the record pending, ends the
\* external socket, removes the record, lowers activeConnections of the
\* connection's tunnel by one and writes no frame; from then on the
\* connection is not pending, has no timer, no data socket and no pair, a
\* connection_ready for it changes nothing, and no later event of its
\* socket touches any activeConnections.
C16_DeadlineDropsPending ==
  /\ [](\A c \in ConnIds : conn[c].expired =>
         /\ c \notin pendingConnections /\ ~timer[c]
         /\ ext[c] \in {"ended", "closing", "closed"}
         /\ data[c] = "none" /\ ~conn[c].ready
         /\ \A t \in TunIds : c \notin tun[t].connections
         /\ handleConnectionReady(Store, c) = Store)
  /\ [][\A c \in ConnIds : (~conn[c].expired /\ conn'[c].expired) =>
          /\ c \in pendingConnections
          /\ ext[c] = "open" => ext'[c] = "ended"
          /\ tun'[conn[c].tunnel].active = tun[conn[c].tunnel].active - 1
          /\ \A t \in TunIds \ {conn[c].tunnel} : tun'[t].active = tun[t].active
          /\ sent' = <<>>]_vars
  /\ [][\A c \in ConnIds : (conn[c].expired /\ SocketEventOf(c)) =>
          \A t \in TunIds : tun'[t].active = tun[t].active]_vars

\* A connection whose deadline fired: the user has closed it too, its
\* 'close' event has run, and its tunnel is still listening.
C16_Witness ==
  \E c \in ConnIds :
    /\ conn[c].expired /\ ext[c] = "closed"
    /\ Listening(conn[c].tunnel) /\ InRegistry(conn[c].tunnel)

\* A data socket is created for connection c in this step.
Dialed(c) == data'[c] = "connecting" /\ data[c] # "connecting"

\* C17: a step that dials for a connection finds it pending with its
\* timer armed and has never dialed for it before, and takes it out of the
\* pending table; for an id that is not pending (never accepted, dialed
\* already, cleaned up, or expired) connection_ready changes nothing; a
\* pair exists only for a connection that was dialed.
C17_DialOnlyWhilePending ==
  /\ [][\A c \in ConnIds : Dialed(c) =>
          /\ c \in pendingConnections /\ timer[c] /\ ~conn[c].expired
          /\ data[c] = "none" /\ ~conn[c].ready
          /\ c \notin pendingConnections' /\ conn'[c].ready]_vars
  /\ [](\A c \in ConnIds :
         /\ c \notin pendingConnections => handleConnectionReady(Store, c) = Store
         /\ (conn[c].ready \/ data[c] # "none") => c \notin pendingConnections
         /\ data[c] # "none" <=> conn[c].ready
         /\ \A t \in TunIds : c \in tun[t].connections => conn[c].ready)

\* A connection that was dialed and spliced has ended, and another one was
\* cleaned up before it was dialed: connection_ready for either finds
\* nothing.
C17_Witness ==
  \E c, d \in ConnIds :
    /\ conn[c].ready /\ conn[c].piped /\ data[c] = "closed"
    /\ conn[d].notified /\ ~conn[d].ready /\ d \notin pendingConnections

\* The step accepts connection c on a tunnel of the registry and cannot
\* notify the tunnel's client.
AcceptedUnnotified(c) ==
  /\ ext[c] = "none" /\ ext'[c] # "none"
  /\ conn'[c].tunnel # 0 /\ ~conn'[c].notified

C19_CleanupIdempotent ==
  \A c \in ConnIds :
    LET once == cleanupConnection(Store, c)
    IN /\ cleanupConnection(once, c) = once
       /\ \A t \in TunIds :
            /\ once.tun[t].active \in {tun[t].active, tun[t].active - 1}
            /\ once.tun[t].active # tun[t].active =>
                 /\ \A u \in TunIds \ {t} : once.tun[u].active = tun[u].active
                 /\ \/ c \in pendingConnections /\ c \notin once.pendingConnections
                    \/ c \in tun[t].connections /\ c \notin once.tun[t].connections

\* cleanupConnection has destroyed the pair of a spliced connection, whose
\* tunnel is listening, and has dropped the pending record of another.
C19_Witness ==
  \E c, d \in ConnIds :
    /\ conn[c].piped /\ ext[c] = "closing" /\ data[c] = "closing"
    /\ Listening(conn[c].rtunnel) /\ c \notin tun[conn[c].rtunnel].connections
    /\ conn[d].notified /\ ~conn[d].ready /\ ~conn[d].expired
    /\ d \notin pendingConnections /\ ext[d] \in {"open", "closing"}

\* The client's configured tunnels are registered to the session of
\* connection w and listening.
ClientTunnelsOwnedBy(w) ==
  \A i \in 1..Len(ClientTunnels) :
    \E t \in TunIds : /\ InRegistry(t) /\ Listening(t)
                       /\ tun[t].port = ClientTunnels[i].remotePort
                       /\ tun[t].clientId = ws[w].clientId

\* C20: once the client's connection is up and authenticated, a
\* register_tunnels frame of the client is handled on it, and the session
\* ends up with the client's tunnels registered, unless the connection
\* goes down or the client leaves it first.
C20_ReconnectRegistersAgain ==
  /\ \A w \in WsIds : isConnected(w) ~> (ws[w].registerSeen \/ ~isConnected(w))
  /\ \A w \in WsIds : isConnected(w) ~> (ClientTunnelsOwnedBy(w) \/ ~isConnected(w))

\* C21: once stop() has returned, the registry is empty and no listener
\* of a tunnel is bound, whatever the clients did during the shutdown.
C21_StoppedServerHasNoTunnel ==
  Stopped => (tunnels = <<>> /\ \A t \in TunIds : ~Listening(t))

\* A frame the authenticated session w sends that the server does not act
\* on is handled in this step.
BadFrameAfterAuth(w) ==
  /\ ws[w].authenticated
  /\ \/ \E f \in JunkFrames \cup AuthFrames : RecvBadFrame(w, f)
     \/ \E f \in UnexpectedFrames : RecvOther(w, f)

\* C22: a frame of an authenticated session that does not parse, fails
\* validation or has an unknown or unexpected type (a second auth) is
\* dropped: no frame is written, the connection keeps its state and its
\* identity and still receives, and the client table, the registry, the
\* tunnels with their counters and active pairs, the pending records and
\* timers, the sockets and the calls in progress are unchanged.
C22_BadFrameAfterAuthIgnored ==
  [][\A w \in WsIds : BadFrameAfterAuth(w) =>
        /\ sent' = <<>>
        /\ ws' = [ws EXCEPT ![w].ignored = TRUE]
        /\ CanReceive(w)' /\ ws'[w].authenticated
        /\ UNCHANGED <<clients, nextClientId, regVars, storeVars, byteVars>>]_vars

\* A session with a tunnel, a pending connection and an active pair has
\* had such a frame ignored and is open.
C22_Witness ==
  \E w \in WsIds : \E c, d \in ConnIds :
    /\ ws[w].ignored /\ ws[w].st = "open" /\ ws[w].clientId \in clients
    /\ OwnedBy(ws[w].clientId) # {}
    /\ c \in pendingConnections
    /\ \E t \in TunIds : InRegistry(t) /\ d \in tun[t].connections

\* The data socket of connection c has failed or was closed: this step
\* delivers its 'close' event.
DataChannelClosed(c) == data[c] # "closed" /\ data'[c] = "closed"

\* Everything but connection c is as it was: the other connections'
\* sockets, pending records, timers and pairs, the registry, the
\* listeners and the control sessions.
OthersUntouched(c) ==
  /\ \A d \in ConnIds \ {c} :
       /\ ext'[d] = ext[d] /\ data'[d] = data[d] /\ timer'[d] = timer[d]
       /\ (d \in pendingConnections') = (d \in pendingConnections)
       /\ \A t \in TunIds : (d \in tun'[t].connections) = (d \in tun[t].connections)
  /\ tunnels' = tunnels
  /\ \A t \in TunIds : /\ tun'[t].listener = tun[t].listener
                        /\ tun'[t].port = tun[t].port
                        /\ tun'[t].clientId = tun[t].clientId
  /\ UNCHANGED <<ws, clients>>

\* C23: when the data socket of a connection has failed (dial error,
\* error, close), both sockets of that connection are destroyed and the
\* connection is in no table, and nothing else has changed.
C23_DataFailureIsLocal ==
  [][\A c \in ConnIds : DataChannelClosed(c) =>
        /\ ext'[c] \in {"closing", "closed"}
        /\ c \notin pendingConnections'
        /\ \A t \in TunIds : c \notin tun'[t].connections
        /\ OthersUntouched(c)]_vars

\* The bytes the spliced connections of tunnel object t have delivered
\* from their external sockets (In) and from their data sockets (Out).
RECURSIVE BytesDelivered(_, _, _)
BytesDelivered(t, cs, dir) ==
  IF cs = {} THEN 0
  ELSE LET c == CHOOSE x \in cs : TRUE
           n == IF ~(conn[c].piped /\ conn[c].rtunnel = t) THEN 0
                ELSE IF dir = "in" THEN Len(wire[c].dataGot) ELSE Len(wire[c].extGot)
       IN n + BytesDelivered(t, cs \ {c}, dir)

\* C24: for each tunnel bytesIn is the number of bytes its spliced
\* connections have read from their external sockets and bytesOut the
\* number they have read from their data sockets; neither ever decreases;
\* when the service echoes, and the external user has got back all the N
\* bytes it sent on the tunnel's one connection, both counters are N.
C24_ByteCountsAccumulate ==
  /\ [](\A t \in TunIds : /\ tun[t].bytesIn = BytesDelivered(t, ConnIds, "in")
                           /\ tun[t].bytesOut = BytesDelivered(t, ConnIds, "out"))
  /\ [][\A t \in TunIds : /\ tun'[t].bytesIn >= tun[t].bytesIn
                           /\ tun'[t].bytesOut >= tun[t].bytesOut]_vars
  /\ [](\A c \in ConnIds :
         (/\ nextConn = c + 1 /\ c = 1 /\ conn[c].piped
          /\ wire[c].dataOut = wire[c].dataGot
          /\ wire[c].extGot = wire[c].extOut)
         => /\ tun[conn[c].rtunnel].bytesIn = Len(wire[c].extOut)
            /\ tun[conn[c].rtunnel].bytesOut = Len(wire[c].extOut))

\* Two connections of one tunnel have both carried bytes in both
\* directions, one of them an echo of N = MaxBytes bytes, some of which
\* the external user sent before the sockets were spliced.
C24_Witness ==
  \E c, d \in ConnIds :
    /\ c # d /\ conn[c].piped /\ conn[d].piped /\ conn[c].rtunnel = conn[d].rtunnel
    /\ wire[c].early > 0 /\ Len(wire[c].extOut) = MaxBytes
    /\ wire[c].dataOut = wire[c].extOut /\ wire[c].extGot = wire[c].extOut
    /\ wire[d].dataGot # <<>> /\ wire[d].extGot # <<>>
    /\ tun[conn[c].rtunnel].bytesIn > MaxBytes
    /\ tun[conn[c].rtunnel].bytesOut > MaxBytes

\* A socket that is closed or destroyed (its 'close' event delivered or
\* due), as opposed to open or half-closed by end().
Gone(st) == st \in {"closing", "closed"}

\* C25: whenever a pair leaves the active set of a tunnel, both of its
\* sockets are closed or destroyed.
C25_RemovedPairHasNoLiveSocket ==
  [][\A t \in TunIds : \A c \in tun[t].connections :
        c \notin tun'[t].connections => Gone(ext'[c]) /\ Gone(data'[c])]_vars

\* This step of a teardown calls server.close() on the listener of t.
ListenerCloseCalled(t) == tun[t].listener = "listening" /\ tun'[t].listener = "closing"

\* C26: when a teardown closes the listener of a tunnel, the tunnel has
\* no active pair, its port has no pending record and no armed timer, and
\* no external socket the listener accepted, tracked in incomingSockets
\* or not, is open or half-closed.
C26_ListenerClosedAfterSockets ==
  [][\A t \in TunIds : ListenerCloseCalled(t) =>
        /\ tun'[t].connections = {}
        /\ \A c \in ConnIds : conn'[c].port = tun[t].port =>
              c \notin pendingConnections' /\ ~timer'[c]
        /\ \A c \in tun'[t].incomingSockets : Gone(ext'[c])
        /\ \A c \in ConnIds : conn'[c].acc = t => ext'[c] \notin {"open", "ended"}]_vars

\* C27: while a teardown waits out the 100 ms that follow the close
\* callback of a listener, the tunnel is still in the registry and no
\* other tunnel is registered on its port.
C27_PortHeldDuringDelay ==
  \A d \in downs :
    d.phase = "sleep" =>
      /\ InRegistry(d.t)
      /\ \A t \in TunIds \ {d.t} : tun[t].port = tun[d.t].port => ~InRegistry(t)

\* Tunnel t is registered and its port is one of the ports a client
\* teardown has collected and not yet reached.
QueuedForTeardown(t) ==
  /\ InRegistry(t)
  /\ \E d \in downs :
       /\ d.id = tun[t].clientId /\ d.phase \in {"close", "sleep"}
       /\ \E i \in 2..Len(d.ports) : d.ports[i] = tun[t].port

\* C28: a tunnel of a disconnected client that waits behind another
\* tunnel of the teardown gets its own teardown (its listener stops
\* listening), whether or not the teardown of the tunnel before it
\* completes.
C28_TeardownReachesEveryTunnel ==
  \A t \in TunIds : QueuedForTeardown(t) ~> ~Listening(t)

\* The first tunnel a teardown of client cid unregisters.
FirstTunnelOf(cid) == MapGetTun(tunnels, PortsOfClient(Store, cid)[1])

C30_OneRegistrationPerSessionAtATime ==
  \A x, y \in regs : x.cid = y.cid => x.id = y.id

\* C31: a client from which a frame or a pong has arrived since the last
\* keepalive tick is not closed by the ping timeout of the next tick.
C31_FramesKeepClientAlive ==
  [][\A w \in WsIds : (ws[w].heard /\ ~ws[w].timedOut) => ~ws'[w].timedOut]_vars

\* Session w is not the client whose tunnel accepted connection c.
NotOwner(w, c) == conn[c].acc # 0 /\ tun[conn[c].acc].clientId # ws[w].clientId

\* C32: a connection_ready or connection_closed frame of a client that
\* does not own the tunnel of the connection it names changes no pending
\* record, timer, socket, pair or counter.
C32_OnlyOwnerActsOnConnection ==
  [][\A w \in WsIds : \A c \in ConnIds :
        (/\ NotOwner(w, c)
         /\ \/ RecvConnectionReady(w, Frame("connection_ready", NoToken, <<>>, c))
            \/ RecvConnectionClosed(w, Frame("connection_closed", NoToken, <<>>, c)))
        => UNCHANGED storeVars]_vars

\* C33: every open external socket is tracked: its connection has a
\* pending record with an armed deadline, or a data socket that is being
\* dialed, or is an active pair of a tunnel.
C33_OpenSocketIsTracked ==
  \A c \in ConnIds :
    ext[c] = "open" =>
      \/ c \in pendingConnections /\ timer[c]
      \/ data[c] \in {"connecting", "connecting_ended"}
      \/ \E t \in TunIds : c \in tun[t].connections

\* The teardown of tunnel object t has started.
TornDown(t) == tun[t].listener \in {"closing", "closed"}

\* C34: once the teardown of a tunnel has started, no step adds a pair to
\* its active map or splices one of its connections.
C34_NoPairAfterTeardown ==
  [][\A t \in TunIds : \A c \in ConnIds :
        TornDown(t) =>
          /\ c \notin tun[t].connections => c \notin tun'[t].connections
          /\ (conn[c].rtunnel = t /\ ~conn[c].piped) => ~conn'[c].piped]_vars

C36_TimerArmedWhilePending ==
  /\ [](\A c \in ConnIds : timer[c] <=> c \in pendingConnections)
  /\ [][\A c \in ConnIds : (~conn[c].expired /\ conn'[c].expired) =>
          /\ c \in pendingConnections /\ timer[c]
          /\ c \notin pendingConnections' /\ ~timer'[c]
          /\ tun'[conn[c].tunnel].active = tun[conn[c].tunnel].active - 1]_vars
  /\ [][\A c \in ConnIds : (conn[c].acc # 0 /\ ~timer[c]) => ~timer'[c]]_vars

\* One connection was dropped by its deadline; another was taken out of
\* the pending table by connection_closed and a third path, the client's
\* connection_ready, is excluded for it: its socket is still open with no
\* timer left.
C36_Witness ==
  \E c, k \in ConnIds :
    /\ c # k /\ conn[c].expired
    /\ conn[k].acc # 0 /\ ~conn[k].expired /\ ~conn[k].ready
    /\ ext[k] = "open" /\ k \notin pendingConnections /\ ~timer[k]
    /\ Listening(conn[k].tunnel)

\* C37: a step of a control connection that is not authenticated before
\* it and not after it (its connect, its frames, its close) leaves the
\* client table, the registrations and teardowns in progress, the
\* registry, the pending table and every tunnel and connection as they
\* were; such a connection has no client id.
C37_UnauthenticatedHasNoEffect ==
  /\ [](\A w \in WsIds : ~ws[w].authenticated => ws[w].clientId = 0)
  /\ [][\A w \in WsIds :
          (~ws[w].authenticated /\ ~ws'[w].authenticated /\ ws'[w] # ws[w]) =>
            UNCHANGED <<clients, nextClientId, regVars, storeVars>>]_vars

\* A connection that sent a malformed frame and a wrong token and never
\* authenticated is closed, and the session of another connection still
\* has its tunnel.
C37_Witness ==
  \E w, v \in WsIds :
    /\ ~ws[w].authenticated /\ ws[w].dropped /\ ws[w].failed
    /\ ws[w].st = "closed"
    /\ ws[v].authenticated /\ ws[v].clientId \in clients
    /\ \E t \in TunIds :
         Listening(t) /\ InRegistry(t) /\ tun[t].clientId = ws[v].clientId

====
